---- MODULE Spec2Model ----
(***************************************************************************)
(* Streaming reduction of serialized sequences (serde_deser_iter).         *)
(*                                                                         *)
(* A document holds one or two sequences.  The format parser owns a cursor *)
(* into the document's token stream and hands a SeqAccess to visit_seq;    *)
(* visit_seq pulls elements one at a time, feeds them to the aggregator    *)
(* and, after an early Break, drains the rest of the sequence.             *)
(*                                                                         *)
(* Two engines are modelled, each from its own code:                       *)
(*   deep      : StreamSeqDeser<I>::deserialize -> Vis<I>::visit_seq       *)
(*   top_level : DeserializerExt::{try_fold,fold,for_each,find}            *)
(*               -> Wrapper<DeserTryFolder>::visit_seq                     *)
(***************************************************************************)
EXTENDS Integers, Sequences, FiniteSets, TLC

\* ---------------------------------------------------------------- bounds
\* longest first sequence of a document
MaxLen == 3
\* longest second (sibling) sequence of a document
MaxLen2 == 2

\* ---------------------------------------------------------------- tokens
\* well-formed elements of the declared Item type
Items == {1, 2}
\* an element whose bytes do not decode as Item
Bad == 0
\* opening and closing boundary of a sequence
Open == -1
Close == -2

Elems == Items \cup {Bad}

RECURSIVE SeqsUpTo(_)
SeqsUpTo(n) ==
    IF n = 0 THEN {<<>>}
    ELSE LET S == SeqsUpTo(n - 1)
         IN  S \cup {Append(s, e) : s \in {t \in S : Len(t) = n - 1}, e \in Elems}

Kinds == {"fold", "try_fold", "for_each", "find"}
Modes == {"deep", "top"}
Combines == {"push", "max"}

VARIABLES
    mode,        \* which entry point runs: "deep" or "top"
    kind,        \* which reduction: fold / try_fold / for_each / find
    combine,     \* the user's folding function (fold, try_fold)
    stopSet,     \* items on which the user's function breaks / the predicate holds
    doc,         \* the document: its sequences, in order
    cursor,      \* the parser's position in the token stream
    cur,         \* index of the sequence being reduced
    pc,          \* control point of the running operation
    acc,         \* visit_seq's `acc`
    value,       \* visit_seq's `value`: <<v>> while an element is in hand, else <<>>
    clot_break,  \* visit_seq's `clot_break`: <<b>> during the drain, else <<>>
    fin,         \* the ControlFlow visit_seq ends with
    ret,         \* what the operation returned for the current sequence
    results,     \* values of the reductions that already returned Ok
    trace,       \* calls made by the current reduction, in order
    calls,       \* items the user's function was called with, in order
    snap         \* <<what the deep entry did>> once the same input is re-run through
                 \* the top_level entry (SpecBoth only), else <<>>

vars == <<mode, kind, combine, stopSet, doc, cursor, cur, pc, acc, value,
          clot_break, fin, ret, results, trace, calls, snap>>

\* ----------------------------------------------------------- ControlFlow
Continue(x) == [tag |-> "Continue", val |-> x]
Break(x) == [tag |-> "Break", val |-> x]
Unset == [tag |-> "Unset", val |-> <<>>]

Unit == <<>>
None == <<>>
Some(x) == <<x>>

Ev(op, arg) == [op |-> op, arg |-> arg]

\* ------------------------------------------------------------ the parser
RECURSIVE Flatten(_)
Flatten(d) ==
    IF d = <<>> THEN <<>>
    ELSE <<Open>> \o Head(d) \o <<Close>> \o Flatten(Tail(d))

Input == Flatten(doc)

\* SeqAccess::next_element on the token stream `inp` at position `c`:
\* Ok(None) consumes the closing boundary, Ok(Some(v)) consumes one element,
\* Err consumes nothing.
next_element(inp, c) ==
    IF c > Len(inp) THEN [res |-> "Err", item |-> Bad, cursor |-> c]
    ELSE LET t == inp[c]
         IN  IF t = Close THEN [res |-> "None", item |-> Close, cursor |-> c + 1]
             ELSE IF t \in Items THEN [res |-> "Some", item |-> t, cursor |-> c + 1]
             ELSE [res |-> "Err", item |-> Bad, cursor |-> c]

\* Deserializer::deserialize_seq: the parser expects a sequence at the cursor
deserialize_seq(inp, c) ==
    IF c <= Len(inp) /\ inp[c] = Open
    THEN [ok |-> TRUE, cursor |-> c + 1]
    ELSE [ok |-> FALSE, cursor |-> c]

\* ------------------------------------------------- the user's functions
Max(a, b) == IF a >= b THEN a ELSE b

\* FoldAggregator::init / the `init` argument of top_level fold
user_init(cmb) == IF cmb = "push" THEN <<>> ELSE 0

\* FoldAggregator::f / the closure of top_level fold
user_f(cmb, a, item) == IF cmb = "push" THEN Append(a, item) ELSE Max(a, item)

\* FindAggregator::f / the closure of top_level find
user_pred(stops, item) == item \in stops

\* TryFoldAggregator::f / the closure of top_level try_fold
user_try_f(cmb, stops, a, item) ==
    IF item \in stops THEN Break(item) ELSE Continue(user_f(cmb, a, item))

\* A step's outcome: the ControlFlow it returns and the items the user's
\* function was called with while computing it.
Out(flow, called) == [flow |-> flow, called |-> called]

\* a finalizer's outcome: a value, or the unreachable!() panic
Val(v) == [panic |-> FALSE, value |-> v]
Unreachable == [panic |-> TRUE, value |-> <<>>]

\* ------------------------------------------------ deep: the aggregators
Fold_init(cmb) == user_init(cmb)

\* mutant of Fold_try_fold: folds into a fresh accumulator instead of `acc`
Fold_try_fold_from_init(cmb, a, item) ==
    Out(Continue(user_f(cmb, Fold_init(cmb), item)), <<item>>)

Fold_try_fold(cmb, a, item) == Out(Continue(user_f(cmb, a, item)), <<item>>)

Fold_finalize(f) == IF f.tag = "Continue" THEN Val(f.val) ELSE Unreachable

TryFold_init(cmb) == user_init(cmb)

TryFold_try_fold(cmb, stops, a, item) == Out(user_try_f(cmb, stops, a, item), <<item>>)

\* mutant of TryFold_finalize: the signal is rewrapped as Continue
TryFold_finalize_as_continue(x) == Val(Continue(x.val))

TryFold_finalize(x) == Val(x)

ForEach_init == Unit

\* mutant of ForEach_try_fold: I::f(item) is not called
ForEach_try_fold_no_call(a, item) == Out(Continue(Unit), <<>>)

ForEach_try_fold(a, item) == Out(Continue(Unit), <<item>>)

\* mutant of ForEach_finalize: unreachable!() on the wrong arm
ForEach_finalize_swapped(f) == IF f.tag = "Continue" THEN Unreachable ELSE Val(f.val)

ForEach_finalize(f) == IF f.tag = "Continue" THEN Val(f.val) ELSE Unreachable

Find_init == Unit

\* mutant of Find_try_fold: the two arms of the `if` exchanged
Find_try_fold_swapped(stops, a, item) ==
    IF user_pred(stops, item)
    THEN Out(Continue(Unit), <<item>>)
    ELSE Out(Break(item), <<item>>)

\* mutant of Find_try_fold: a match does not break, the scan goes on
Find_try_fold_no_break(stops, a, item) ==
    IF user_pred(stops, item)
    THEN Out(Continue(Unit), <<item>>)
    ELSE Out(Continue(Unit), <<item>>)

Find_try_fold(stops, a, item) ==
    IF user_pred(stops, item)
    THEN Out(Break(item), <<item>>)
    ELSE Out(Continue(Unit), <<item>>)

\* mutant of Find_finalize: Some(..) on both arms
Find_finalize_always_some(f) == Val(Some(f.val))

Find_finalize(f) == IF f.tag = "Continue" THEN Val(None) ELSE Val(Some(f.val))

\* the Aggregator trait, dispatched on the type parameter I of Vis<I>
I_init(k, cmb) ==
    CASE k = "fold" -> Fold_init(cmb)
      [] k = "try_fold" -> TryFold_init(cmb)
      [] k = "for_each" -> ForEach_init
      [] k = "find" -> Find_init

I_try_fold(k, cmb, stops, a, item) ==
    CASE k = "fold" -> Fold_try_fold(cmb, a, item)
      [] k = "try_fold" -> TryFold_try_fold(cmb, stops, a, item)
      [] k = "for_each" -> ForEach_try_fold(a, item)
      [] k = "find" -> Find_try_fold(stops, a, item)

I_finalize(k, f) ==
    CASE k = "fold" -> Fold_finalize(f)
      [] k = "try_fold" -> TryFold_finalize(f)
      [] k = "for_each" -> ForEach_finalize(f)
      [] k = "find" -> Find_finalize(f)

\* --------------------------------------- top_level: DeserializerExt
lift_infallible(val) == Continue(val)

\* the `init` each method hands to try_fold
top_init(k, cmb) ==
    CASE k = "fold" -> user_init(cmb)
      [] k = "try_fold" -> user_init(cmb)
      [] k = "for_each" -> Unit
      [] k = "find" -> Unit

\* the closure each method hands to try_fold (DeserTryFolder.f)
top_f(k, cmb, stops, a, item) ==
    CASE k = "try_fold" -> Out(user_try_f(cmb, stops, a, item), <<item>>)
      [] k = "fold" -> Out(lift_infallible(user_f(cmb, a, item)), <<item>>)
      [] k = "for_each" -> Out(lift_infallible(Unit), <<item>>)
      [] k = "find" ->
            IF user_pred(stops, item)
            THEN Out(Break(item), <<item>>)
            ELSE Out(Continue(Unit), <<item>>)

\* mutant of top_match: the arms of find's match exchanged
top_match_swapped(k, cf) ==
    CASE k = "try_fold" -> Val(cf)
      [] k = "fold" -> IF cf.tag = "Continue" THEN Val(cf.val) ELSE Unreachable
      [] k = "for_each" -> IF cf.tag = "Continue" THEN Val(cf.val) ELSE Unreachable
      [] k = "find" -> IF cf.tag = "Continue" THEN Val(Some(cf.val)) ELSE Val(None)

\* what each method makes of the Ok(ControlFlow) try_fold returned
top_match(k, cf) ==
    CASE k = "try_fold" -> Val(cf)
      [] k = "fold" -> IF cf.tag = "Continue" THEN Val(cf.val) ELSE Unreachable
      [] k = "for_each" -> IF cf.tag = "Continue" THEN Val(cf.val) ELSE Unreachable
      [] k = "find" -> IF cf.tag = "Continue" THEN Val(None) ELSE Val(Some(cf.val))

\* ------------------------------------------------------------------ Init
Init ==
    /\ mode \in Modes
    /\ kind \in Kinds
    /\ combine \in (IF kind \in {"fold", "try_fold"} THEN Combines ELSE {"push"})
    /\ stopSet \in (IF kind \in {"try_fold", "find"} THEN SUBSET Items ELSE {{}})
    /\ doc \in (IF mode = "deep"
                THEN {<<s, t>> : s \in SeqsUpTo(MaxLen), t \in SeqsUpTo(MaxLen2)}
                ELSE {<<s>> : s \in SeqsUpTo(MaxLen)})
    /\ cursor = 1
    /\ cur = 1
    /\ pc = "idle"
    /\ acc = <<>>
    /\ value = <<>>
    /\ clot_break = <<>>
    /\ fin = Unset
    /\ ret = "none"
    /\ results = <<>>
    /\ trace = <<>>
    /\ calls = <<>>
    /\ snap = <<>>

\* variables the engines' actions leave alone: the reduction's inputs
Inputs == <<mode, kind, combine, stopSet, doc, snap>>

\* ------------------------------------------------------- deep: actions
\* StreamSeqDeser::deserialize: deserializer.deserialize_seq(vis)
StreamSeqDeser_deserialize ==
    /\ mode = "deep" /\ pc = "idle"
    /\ LET r == deserialize_seq(Input, cursor)
       IN  /\ cursor' = r.cursor
           /\ pc' = IF r.ok THEN "init" ELSE "err"
           /\ ret' = IF r.ok THEN "none" ELSE "Err"
    /\ acc' = <<>> /\ value' = <<>> /\ clot_break' = <<>> /\ fin' = Unset
    /\ trace' = <<>> /\ calls' = <<>>
    /\ UNCHANGED <<Inputs, cur, results>>

\* Vis::visit_seq: let mut acc = I::init();
Vis_init ==
    /\ mode = "deep" /\ pc = "init"
    /\ acc' = I_init(kind, combine)
    /\ trace' = Append(trace, Ev("init", 0))
    /\ pc' = "loop"
    /\ UNCHANGED <<Inputs, cursor, cur, value, clot_break, fin, ret, results, calls>>

\* mutant of Vis_next: `let mut acc = I::init();` moved inside the loop
Vis_next_reinit ==
    /\ mode = "deep" /\ pc = "loop"
    /\ LET r == next_element(Input, cursor)
       IN  /\ cursor' = r.cursor
           /\ trace' = trace \o <<Ev("init", 0), Ev("next", r.item)>>
           /\ acc' = I_init(kind, combine)
           /\ CASE r.res = "Some" ->
                     /\ value' = Some(r.item) /\ pc' = "step"
                     /\ UNCHANGED <<fin, ret>>
                [] r.res = "None" ->
                     /\ fin' = Continue(acc') /\ pc' = "finalize"
                     /\ UNCHANGED <<value, ret>>
                [] r.res = "Err" ->
                     /\ ret' = "Err" /\ pc' = "err"
                     /\ UNCHANGED <<value, fin>>
    /\ UNCHANGED <<Inputs, cur, clot_break, results, calls>>

\* mutant of Vis_next: the elements are collected first, `value` a buffer,
\* and handed on only when the cursor is exhausted
Vis_next_buffer ==
    /\ mode = "deep" /\ pc = "loop"
    /\ LET r == next_element(Input, cursor)
       IN  /\ cursor' = r.cursor
           /\ trace' = Append(trace, Ev("next", r.item))
           /\ CASE r.res = "Some" ->
                     /\ value' = Append(value, r.item) /\ pc' = "loop"
                     /\ UNCHANGED <<fin, ret>>
                [] r.res = "None" ->
                     /\ IF value = <<>>
                        THEN fin' = Continue(acc) /\ pc' = "finalize"
                        ELSE fin' = fin /\ pc' = "step"
                     /\ UNCHANGED <<value, ret>>
                [] r.res = "Err" ->
                     /\ ret' = "Err" /\ pc' = "err"
                     /\ UNCHANGED <<value, fin>>
    /\ UNCHANGED <<Inputs, cur, acc, clot_break, results, calls>>

\* mutant of Vis_next: an element that fails to decode is skipped
Vis_next_skip_bad ==
    /\ mode = "deep" /\ pc = "loop"
    /\ LET r == next_element(Input, cursor)
       IN  /\ trace' = Append(trace, Ev("next", r.item))
           /\ CASE r.res = "Some" ->
                     /\ value' = Some(r.item) /\ pc' = "step"
                     /\ cursor' = r.cursor /\ UNCHANGED fin
                [] r.res = "None" ->
                     /\ fin' = Continue(acc) /\ pc' = "finalize"
                     /\ cursor' = r.cursor /\ UNCHANGED value
                [] r.res = "Err" ->
                     /\ cursor' = r.cursor + 1 /\ pc' = "loop"
                     /\ UNCHANGED <<value, fin>>
    /\ UNCHANGED <<Inputs, cur, acc, clot_break, ret, results, calls>>

\* Vis::visit_seq: while let Some(value) = seq.next_element()? { .. }
\*                 fin = ControlFlow::Continue(acc)
Vis_next ==
    /\ mode = "deep" /\ pc = "loop"
    /\ LET r == next_element(Input, cursor)
       IN  /\ cursor' = r.cursor
           /\ trace' = Append(trace, Ev("next", r.item))
           /\ CASE r.res = "Some" ->
                     /\ value' = Some(r.item) /\ pc' = "step"
                     /\ UNCHANGED <<fin, ret>>
                [] r.res = "None" ->
                     /\ fin' = Continue(acc) /\ pc' = "finalize"
                     /\ UNCHANGED <<value, ret>>
                [] r.res = "Err" ->
                     /\ ret' = "Err" /\ pc' = "err"
                     /\ UNCHANGED <<value, fin>>
    /\ UNCHANGED <<Inputs, cur, acc, clot_break, results, calls>>

\* mutant of Vis_step: on Break, `break 'outer` at once, the drain loop left out
Vis_step_break_outer ==
    /\ mode = "deep" /\ pc = "step"
    /\ LET o == I_try_fold(kind, combine, stopSet, acc, value[1])
       IN  /\ calls' = calls \o o.called
           /\ trace' = Append(trace, Ev("step", value[1]))
           /\ value' = <<>>
           /\ IF o.flow.tag = "Continue"
              THEN /\ acc' = o.flow.val /\ pc' = "loop"
                   /\ UNCHANGED fin
              ELSE /\ fin' = Break(o.flow.val) /\ pc' = "finalize"
                   /\ UNCHANGED acc
    /\ UNCHANGED <<Inputs, cursor, cur, clot_break, ret, results>>

\* Vis::visit_seq: match I::try_fold(acc, value) { Continue(..) | Break(..) }
Vis_step ==
    /\ mode = "deep" /\ pc = "step"
    /\ LET o == I_try_fold(kind, combine, stopSet, acc, value[1])
       IN  /\ calls' = calls \o o.called
           /\ trace' = Append(trace, Ev("step", value[1]))
           /\ value' = <<>>
           /\ IF o.flow.tag = "Continue"
              THEN /\ acc' = o.flow.val /\ pc' = "loop"
                   /\ UNCHANGED clot_break
              ELSE /\ clot_break' = Some(o.flow.val) /\ pc' = "drain"
                   /\ UNCHANGED acc
    /\ UNCHANGED <<Inputs, cursor, cur, fin, ret, results>>

\* mutant of Vis_drain: an element that fails to decode in the drain is skipped
Vis_drain_skip_bad ==
    /\ mode = "deep" /\ pc = "drain"
    /\ LET r == next_element(Input, cursor)
       IN  /\ trace' = Append(trace, Ev("next", r.item))
           /\ CASE r.res = "Some" ->
                     /\ cursor' = r.cursor /\ pc' = "drain"
                     /\ UNCHANGED <<fin, clot_break>>
                [] r.res = "None" ->
                     /\ cursor' = r.cursor
                     /\ fin' = Break(clot_break[1]) /\ clot_break' = <<>>
                     /\ pc' = "finalize"
                [] r.res = "Err" ->
                     /\ cursor' = r.cursor + 1 /\ pc' = "drain"
                     /\ UNCHANGED <<fin, clot_break>>
    /\ UNCHANGED <<Inputs, cur, acc, value, ret, results, calls>>

\* mutant of Vis_drain: `while !matches!(seq.next_element(), Ok(None)) {}`, a
\* pull that fails is made again, and fails again
Vis_drain_retry ==
    /\ mode = "deep" /\ pc = "drain"
    /\ LET r == next_element(Input, cursor)
       IN  CASE r.res = "Some" ->
                  /\ cursor' = r.cursor
                  /\ trace' = Append(trace, Ev("next", r.item))
                  /\ pc' = "drain" /\ UNCHANGED <<fin, clot_break>>
             [] r.res = "None" ->
                  /\ cursor' = r.cursor
                  /\ trace' = Append(trace, Ev("next", r.item))
                  /\ fin' = Break(clot_break[1]) /\ clot_break' = <<>>
                  /\ pc' = "finalize"
             [] r.res = "Err" ->
                  UNCHANGED <<cursor, trace, pc, fin, clot_break>>
    /\ UNCHANGED <<Inputs, cur, acc, value, ret, results, calls>>

\* mutant of Vis_drain: the drain loop's body never runs
Vis_drain_no_drain ==
    /\ mode = "deep" /\ pc = "drain"
    /\ fin' = Break(clot_break[1]) /\ clot_break' = <<>>
    /\ pc' = "finalize"
    /\ UNCHANGED <<Inputs, cursor, cur, acc, value, ret, results, trace, calls>>

\* mutant of Vis_drain: the elements pulled by the drain are handed to try_fold
Vis_drain_steps ==
    /\ mode = "deep" /\ pc = "drain"
    /\ LET r == next_element(Input, cursor)
       IN  /\ cursor' = r.cursor
           /\ CASE r.res = "Some" ->
                     /\ trace' = trace \o <<Ev("next", r.item), Ev("step", r.item)>>
                     /\ calls' = calls \o
                            I_try_fold(kind, combine, stopSet, acc, r.item).called
                     /\ pc' = "drain" /\ UNCHANGED <<fin, ret, clot_break>>
                [] r.res = "None" ->
                     /\ trace' = Append(trace, Ev("next", r.item))
                     /\ fin' = Break(clot_break[1]) /\ clot_break' = <<>>
                     /\ pc' = "finalize" /\ UNCHANGED <<ret, calls>>
                [] r.res = "Err" ->
                     /\ trace' = Append(trace, Ev("next", r.item))
                     /\ ret' = "Err" /\ pc' = "err"
                     /\ UNCHANGED <<fin, clot_break, calls>>
    /\ UNCHANGED <<Inputs, cur, acc, value, results>>

\* Vis::visit_seq: while seq.next_element::<I::Item>()?.is_some() {}
\*                 fin = ControlFlow::Break(clot_break); break 'outer;
Vis_drain ==
    /\ mode = "deep" /\ pc = "drain"
    /\ LET r == next_element(Input, cursor)
       IN  /\ cursor' = r.cursor
           /\ trace' = Append(trace, Ev("next", r.item))
           /\ CASE r.res = "Some" ->
                     /\ pc' = "drain" /\ UNCHANGED <<fin, ret, clot_break>>
                [] r.res = "None" ->
                     /\ fin' = Break(clot_break[1]) /\ clot_break' = <<>>
                     /\ pc' = "finalize" /\ UNCHANGED ret
                [] r.res = "Err" ->
                     /\ ret' = "Err" /\ pc' = "err"
                     /\ UNCHANGED <<fin, clot_break>>
    /\ UNCHANGED <<Inputs, cur, acc, value, results, calls>>

\* Vis::visit_seq: Ok(I::finalize(fin)); StreamSeqDeser::deserialize:
\* Ok(Self { value: fin })
Vis_finalize ==
    /\ mode = "deep" /\ pc = "finalize"
    /\ LET v == I_finalize(kind, fin)
       IN  /\ trace' = Append(trace, Ev("finalize", 0))
           /\ IF v.panic
              THEN /\ pc' = "panic" /\ ret' = "panic" /\ UNCHANGED results
              ELSE /\ pc' = "returned" /\ ret' = "Ok"
                   /\ results' = Append(results, v.value)
    /\ UNCHANGED <<Inputs, cursor, cur, acc, value, clot_break, fin, calls>>

\* the surrounding record's decode goes on to its next field, or ends
Deep_next_field ==
    /\ mode = "deep" /\ pc = "returned"
    /\ IF cur < Len(doc)
       THEN /\ cur' = cur + 1 /\ pc' = "idle"
       ELSE /\ pc' = "done" /\ UNCHANGED cur
    /\ UNCHANGED <<Inputs, cursor, acc, value, clot_break, fin, ret, results,
                   trace, calls>>

\* -------------------------------------------------- top_level: actions
\* DeserializerExt::try_fold (reached from fold, for_each and find too):
\* DeserTryFolder::new(init, f); self.deserialize_seq(Wrapper(folder))
Ext_try_fold ==
    /\ mode = "top" /\ pc = "idle"
    /\ LET r == deserialize_seq(Input, cursor)
       IN  /\ cursor' = r.cursor
           /\ pc' = IF r.ok THEN "init" ELSE "err"
           /\ ret' = IF r.ok THEN "none" ELSE "Err"
    /\ acc' = <<>> /\ value' = <<>> /\ clot_break' = <<>> /\ fin' = Unset
    /\ trace' = <<>> /\ calls' = <<>>
    /\ UNCHANGED <<Inputs, cur, results>>

\* Wrapper::visit_seq: let mut acc = self.0.init;
Wrapper_init ==
    /\ mode = "top" /\ pc = "init"
    /\ acc' = top_init(kind, combine)
    /\ trace' = Append(trace, Ev("init", 0))
    /\ pc' = "loop"
    /\ UNCHANGED <<Inputs, cursor, cur, value, clot_break, fin, ret, results, calls>>

\* mutant of Wrapper_next: `while let Ok(Some(value))`, a decode error ends
\* the loop and what was folded so far is returned
Wrapper_next_swallow ==
    /\ mode = "top" /\ pc = "loop"
    /\ LET r == next_element(Input, cursor)
       IN  /\ cursor' = r.cursor
           /\ trace' = Append(trace, Ev("next", r.item))
           /\ IF r.res = "Some"
              THEN /\ value' = Some(r.item) /\ pc' = "step"
                   /\ UNCHANGED fin
              ELSE /\ fin' = Continue(acc) /\ pc' = "finalize"
                   /\ UNCHANGED value
    /\ UNCHANGED <<Inputs, cur, acc, clot_break, ret, results, calls>>

\* mutant of Wrapper_next: the drain loop placed after the main loop, run on
\* every path, pulls once more after the cursor reported exhaustion
Wrapper_next_pull_past ==
    /\ mode = "top" /\ pc = "loop"
    /\ LET r == next_element(Input, cursor)
           r2 == next_element(Input, r.cursor)
       IN  CASE r.res = "Some" ->
                  /\ cursor' = r.cursor
                  /\ trace' = Append(trace, Ev("next", r.item))
                  /\ value' = Some(r.item) /\ pc' = "step"
                  /\ UNCHANGED <<fin, ret>>
             [] r.res = "None" ->
                  /\ cursor' = r2.cursor
                  /\ trace' = trace \o <<Ev("next", r.item), Ev("next", r2.item)>>
                  /\ IF r2.res = "Err"
                     THEN ret' = "Err" /\ pc' = "err" /\ fin' = fin
                     ELSE ret' = ret /\ pc' = "finalize" /\ fin' = Continue(acc)
                  /\ UNCHANGED value
             [] r.res = "Err" ->
                  /\ cursor' = r.cursor
                  /\ trace' = Append(trace, Ev("next", r.item))
                  /\ ret' = "Err" /\ pc' = "err"
                  /\ UNCHANGED <<value, fin>>
    /\ UNCHANGED <<Inputs, cur, acc, clot_break, results, calls>>

\* mutant of Wrapper_next: the loop tests one pull and binds `value` from a
\* second one, `while seq.next_element()?.is_some() { if let Some(value) = .. }`
Wrapper_next_double_pull ==
    /\ mode = "top" /\ pc = "loop"
    /\ LET r1 == next_element(Input, cursor)
           r == IF r1.res = "Some" THEN next_element(Input, r1.cursor) ELSE r1
       IN  /\ cursor' = r.cursor
           /\ trace' = IF r1.res = "Some"
                       THEN trace \o <<Ev("next", r1.item), Ev("next", r.item)>>
                       ELSE Append(trace, Ev("next", r.item))
           /\ CASE r.res = "Some" ->
                     /\ value' = Some(r.item) /\ pc' = "step"
                     /\ UNCHANGED <<fin, ret>>
                [] r.res = "None" ->
                     /\ fin' = Continue(acc) /\ pc' = "finalize"
                     /\ UNCHANGED <<value, ret>>
                [] r.res = "Err" ->
                     /\ ret' = "Err" /\ pc' = "err"
                     /\ UNCHANGED <<value, fin>>
    /\ UNCHANGED <<Inputs, cur, acc, clot_break, results, calls>>

\* Wrapper::visit_seq: while let Some(value) = seq.next_element()? { .. }
\*                     Ok(ControlFlow::Continue(acc))
Wrapper_next ==
    /\ mode = "top" /\ pc = "loop"
    /\ LET r == next_element(Input, cursor)
       IN  /\ cursor' = r.cursor
           /\ trace' = Append(trace, Ev("next", r.item))
           /\ CASE r.res = "Some" ->
                     /\ value' = Some(r.item) /\ pc' = "step"
                     /\ UNCHANGED <<fin, ret>>
                [] r.res = "None" ->
                     /\ fin' = Continue(acc) /\ pc' = "finalize"
                     /\ UNCHANGED <<value, ret>>
                [] r.res = "Err" ->
                     /\ ret' = "Err" /\ pc' = "err"
                     /\ UNCHANGED <<value, fin>>
    /\ UNCHANGED <<Inputs, cur, acc, clot_break, results, calls>>

\* Wrapper::visit_seq: match (self.0.f)(acc, value) { Continue(..) | Break(..) }
Wrapper_step ==
    /\ mode = "top" /\ pc = "step"
    /\ LET o == top_f(kind, combine, stopSet, acc, value[1])
       IN  /\ calls' = calls \o o.called
           /\ trace' = Append(trace, Ev("step", value[1]))
           /\ value' = <<>>
           /\ IF o.flow.tag = "Continue"
              THEN /\ acc' = o.flow.val /\ pc' = "loop"
                   /\ UNCHANGED clot_break
              ELSE /\ clot_break' = Some(o.flow.val) /\ pc' = "drain"
                   /\ UNCHANGED acc
    /\ UNCHANGED <<Inputs, cursor, cur, fin, ret, results>>

\* mutant of Wrapper_drain: `while let Ok(Some(_))`, a decode error ends the drain
Wrapper_drain_swallow ==
    /\ mode = "top" /\ pc = "drain"
    /\ LET r == next_element(Input, cursor)
       IN  /\ cursor' = r.cursor
           /\ trace' = Append(trace, Ev("next", r.item))
           /\ IF r.res = "Some"
              THEN /\ pc' = "drain" /\ UNCHANGED <<fin, clot_break>>
              ELSE /\ fin' = Break(clot_break[1]) /\ clot_break' = <<>>
                   /\ pc' = "finalize"
    /\ UNCHANGED <<Inputs, cur, acc, value, ret, results, calls>>

\* mutant of Wrapper_drain: `if` for `while`, one element is pulled and no more
Wrapper_drain_once ==
    /\ mode = "top" /\ pc = "drain"
    /\ LET r == next_element(Input, cursor)
       IN  /\ cursor' = r.cursor
           /\ trace' = Append(trace, Ev("next", r.item))
           /\ IF r.res = "Err"
              THEN /\ ret' = "Err" /\ pc' = "err"
                   /\ UNCHANGED <<fin, clot_break>>
              ELSE /\ fin' = Break(clot_break[1]) /\ clot_break' = <<>>
                   /\ pc' = "finalize" /\ UNCHANGED ret
    /\ UNCHANGED <<Inputs, cur, acc, value, results, calls>>

\* Wrapper::visit_seq: while seq.next_element::<Item>()?.is_some() {}
\*                     return Ok(ControlFlow::Break(clot_break));
Wrapper_drain ==
    /\ mode = "top" /\ pc = "drain"
    /\ LET r == next_element(Input, cursor)
       IN  /\ cursor' = r.cursor
           /\ trace' = Append(trace, Ev("next", r.item))
           /\ CASE r.res = "Some" ->
                     /\ pc' = "drain" /\ UNCHANGED <<fin, ret, clot_break>>
                [] r.res = "None" ->
                     /\ fin' = Break(clot_break[1]) /\ clot_break' = <<>>
                     /\ pc' = "finalize" /\ UNCHANGED ret
                [] r.res = "Err" ->
                     /\ ret' = "Err" /\ pc' = "err"
                     /\ UNCHANGED <<fin, clot_break>>
    /\ UNCHANGED <<Inputs, cur, acc, value, results, calls>>

\* DeserializerExt::{try_fold, fold, for_each, find}: the match on what
\* try_fold returned, and the return to the caller
Ext_match ==
    /\ mode = "top" /\ pc = "finalize"
    /\ LET v == top_match(kind, fin)
       IN  /\ trace' = Append(trace, Ev("finalize", 0))
           /\ IF v.panic
              THEN /\ pc' = "panic" /\ ret' = "panic" /\ UNCHANGED results
              ELSE /\ pc' = "done" /\ ret' = "Ok"
                   /\ results' = Append(results, v.value)
    /\ UNCHANGED <<Inputs, cursor, cur, acc, value, clot_break, fin, calls>>

\* ------------------------------------------------------------------ Next
Next ==
    \/ StreamSeqDeser_deserialize
    \/ Vis_init
    \/ Vis_next
    \/ Vis_step
    \/ Vis_drain
    \/ Vis_finalize
    \/ Deep_next_field
    \/ Ext_try_fold
    \/ Wrapper_init
    \/ Wrapper_next
    \/ Wrapper_step
    \/ Wrapper_drain
    \/ Ext_match

Spec == Init /\ [][Next]_vars

\* ===================================================== what the claims read
\* the sequence the running reduction is over
CurSeq == doc[cur]

\* a reduction is running or has ended on CurSeq (trace, calls, fin, ret are its own)
Active == pc # "idle"

\* results of the next_element calls made so far (Bad for Err, Close for None)
Nexts == LET n == SelectSeq(trace, LAMBDA e : e.op = "next")
         IN  [i \in 1..Len(n) |-> n[i].arg]

\* items handed to the step function so far
Steps == LET n == SelectSeq(trace, LAMBDA e : e.op = "step")
         IN  [i \in 1..Len(n) |-> n[i].arg]

Finalized == \E i \in 1..Len(trace) : trace[i].op = "finalize"

IsPrefix(a, b) == Len(a) <= Len(b) /\ a = SubSeq(b, 1, Len(a))

\* index of the first element of s in set S, 0 when there is none
FirstIn(s, S) ==
    IF \E i \in 1..Len(s) : s[i] \in S
    THEN CHOOSE i \in 1..Len(s) : s[i] \in S /\ \A j \in 1..(i - 1) : s[j] \notin S
    ELSE 0

\* index of the first element that does not decode
FirstBad(s) == FirstIn(s, {Bad})

\* index of the first element on which the user's function stops; only
\* try_fold and find have a non-empty stopSet
FirstStop(s) == FirstIn(s, stopSet)

\* the step function reaches its Stop on s: a stopping element, nothing bad before it
StopsAt(s) == IF FirstStop(s) > 0 /\ FirstBad(SubSeq(s, 1, FirstStop(s))) = 0
              THEN FirstStop(s) ELSE 0

\* position of the closing boundary of the i-th sequence in the token stream
RECURSIVE SeqEnd(_)
SeqEnd(i) == IF i = 0 THEN 0 ELSE SeqEnd(i - 1) + Len(doc[i]) + 2

\* C1: drain on early exit. In both engines, whenever visit_seq holds a Stop
\* result (fin is Break), next_element has been called on every element of
\* the sequence, those after the stopping element k included, and the last
\* call reported exhaustion; step saw exactly the elements up to k.
C1_DrainOnEarlyExit ==
    (Active /\ fin.tag = "Break") =>
        /\ StopsAt(CurSeq) > 0
        /\ Nexts = CurSeq \o <<Close>>
        /\ Steps = SubSeq(CurSeq, 1, StopsAt(CurSeq))
        /\ cursor = SeqEnd(cur) + 1

\* C1 witness: a Stop result returned after at least two elements were drained
C1_Witness ==
    /\ ret = "Ok" /\ fin.tag = "Break"
    /\ StopsAt(CurSeq) + 2 <= Len(CurSeq)
    /\ Len(Nexts) = Len(CurSeq) + 1

\* C2 (as claimed): whenever visit_seq has returned, with a value or with a
\* decode error, the cursor is past the closing boundary of the sequence.
C2_CursorAlwaysAdvanced ==
    (Active /\ ret \in {"Ok", "Err"}) => cursor = SeqEnd(cur) + 1

\* C2 (amended): when visit_seq returns a value the cursor is past the closing
\* boundary and the last pull reported exhaustion; when it returns a decode
\* error the failing pull was its last call, exhaustion was never reported
\* and the cursor is still inside the sequence.
C2_CursorAdvancedOnOk ==
    /\ (Active /\ ret = "Ok") =>
           /\ cursor = SeqEnd(cur) + 1
           /\ Nexts # <<>> /\ Nexts[Len(Nexts)] = Close
    /\ (Active /\ ret = "Err") =>
           /\ trace # <<>> /\ trace[Len(trace)] = Ev("next", Bad)
           /\ \A i \in 1..Len(Nexts) : Nexts[i] # Close
           /\ cursor <= SeqEnd(cur)

\* C2 witness: a return after an early stop with the cursor past the end
C2_Witness ==
    /\ ret = "Ok" /\ fin.tag = "Break" /\ Len(CurSeq) = MaxLen
    /\ StopsAt(CurSeq) = 1 /\ cursor = SeqEnd(cur) + 1

\* C3: sibling sequences survive an early exit. When the reduction over the
\* first sequence stopped early and returned, the reduction over the second
\* one is handed the second sequence's elements, in order, from its first
\* element: its pulls are a prefix of that sequence, it fails only on an
\* element of that sequence that does not decode, and when it returns it has
\* pulled exactly that sequence.
C3_SiblingSurvives ==
    (mode = "deep" /\ cur = 2 /\ Active /\ StopsAt(doc[1]) > 0) =>
        /\ IsPrefix(Nexts, doc[2] \o <<Close>>)
        /\ IsPrefix(Steps, doc[2])
        /\ ret = "Err" => /\ FirstBad(doc[2]) > 0
                          /\ Nexts = SubSeq(doc[2], 1, FirstBad(doc[2]))
        /\ pc = "done" => Nexts = doc[2] \o <<Close>>

\* C3 witness: the second reduction returned after the first one stopped at
\* its first element with elements left to drain
C3_Witness ==
    /\ mode = "deep" /\ cur = 2 /\ pc = "done"
    /\ StopsAt(doc[1]) = 1 /\ Len(doc[1]) = MaxLen
    /\ Len(doc[2]) = MaxLen2 /\ Steps = doc[2]

\* C4: no step after Stop. The items handed to step (and to the user's
\* function) never extend beyond the first one on which step returned Stop.
C4_NoStepAfterStop ==
    Active =>
        /\ \A i \in 1..(Len(Steps) - 1) : Steps[i] \notin stopSet
        /\ calls = Steps
        /\ (clot_break # <<>> \/ fin.tag = "Break") =>
               /\ Steps # <<>> /\ Steps[Len(Steps)] \in stopSet
               /\ Len(Steps) = StopsAt(CurSeq)

\* C4 witness: the drain pulled an element after the Stop, step not called on it
C4_Witness ==
    /\ pc = "drain" /\ clot_break # <<>>
    /\ Len(Nexts) > Len(Steps)
    /\ Nexts[Len(Nexts)] \in stopSet

\* the operation on CurSeq is over
Terminal == pc \in {"returned", "done", "err", "panic"}

\* the value the reduction over CurSeq returned (read only when ret = "Ok")
Result == results[Len(results)]

\* the left-to-right fold of s from a with the user's function
RECURSIVE FoldL(_, _, _)
FoldL(cmb, a, s) ==
    IF s = <<>> THEN a ELSE FoldL(cmb, user_f(cmb, a, Head(s)), Tail(s))

\* C5: order preservation of Fold. The elements consumed are a prefix of the
\* sequence, the accumulator after i of them is the left-to-right fold of
\* those i from initial(), and on a sequence without decode error Fold
\* returns the left-to-right fold of all its elements (deep and top_level).
C5_FoldOrder ==
    (Active /\ kind = "fold") =>
        /\ IsPrefix(Steps, CurSeq)
        /\ pc \in {"loop", "step", "finalize"} =>
               acc = FoldL(combine, user_init(combine), Steps)
        /\ (Terminal /\ FirstBad(CurSeq) = 0) => ret = "Ok"
        /\ ret = "Ok" => /\ FirstBad(CurSeq) = 0
                         /\ Result = FoldL(combine, user_init(combine), CurSeq)

\* C5 witness: a fold over a full-length sequence of differing elements returned
C5_Witness ==
    /\ kind = "fold" /\ combine = "push" /\ ret = "Ok"
    /\ Len(CurSeq) = MaxLen /\ CurSeq[1] # CurSeq[2]
    /\ Result = CurSeq

\* C6: Find correctness. On a sequence without decode error Find returns,
\* and returns the first element satisfying the predicate, or None exactly
\* when no element satisfies it (deep and top_level).
C6_FindFirstMatch ==
    (Active /\ kind = "find" /\ FirstBad(CurSeq) = 0) =>
        /\ Terminal => ret = "Ok"
        /\ ret = "Ok" =>
               Result = IF FirstStop(CurSeq) = 0 THEN None
                        ELSE Some(CurSeq[FirstStop(CurSeq)])

\* C6 witness: Find returned the match at index 1 although a different
\* value matches at index 2
C6_Witness ==
    /\ kind = "find" /\ ret = "Ok" /\ Len(CurSeq) = MaxLen
    /\ FirstStop(CurSeq) = 1 /\ CurSeq[2] \in stopSet /\ CurSeq[2] # CurSeq[1]
    /\ Result = Some(CurSeq[1])

\* C6 second case, reached too: no element matches and Find returns None
C6_NoneReached ==
    /\ kind = "find" /\ ret = "Ok" /\ Len(CurSeq) = MaxLen
    /\ FirstStop(CurSeq) = 0 /\ stopSet # {} /\ Result = None

\* C7: For-each totality. apply is called on a prefix of the sequence, in
\* order; on a sequence without decode error For-Each returns, having called
\* apply exactly once on each element in order, and returns unit.
C7_ForEachTotal ==
    (Active /\ kind = "for_each") =>
        /\ IsPrefix(calls, CurSeq)
        /\ (Terminal /\ FirstBad(CurSeq) = 0) => ret = "Ok"
        /\ ret = "Ok" => calls = CurSeq /\ Result = Unit

\* C7 witness: for_each returned after applying to a full-length sequence
C7_Witness ==
    /\ kind = "for_each" /\ ret = "Ok"
    /\ Len(CurSeq) = MaxLen /\ calls = CurSeq /\ CurSeq[1] # CurSeq[MaxLen]

\* C8: empty sequence. When the first pull reports exhaustion the user's
\* function is never called, the operation returns, and it returns initial()
\* for Fold, unit for For-Each, None for Find, Continue(initial()) for
\* Fallible Fold.
C8_EmptySequence ==
    (Active /\ CurSeq = <<>>) =>
        /\ calls = <<>> /\ Steps = <<>>
        /\ Terminal => ret = "Ok"
        /\ ret = "Ok" =>
               /\ Nexts = <<Close>>
               /\ CASE kind = "fold" -> Result = user_init(combine)
                    [] kind = "for_each" -> Result = Unit
                    [] kind = "find" -> Result = None
                    [] kind = "try_fold" -> Result = Continue(user_init(combine))

\* C8 witness: a fallible fold over the empty sequence returned Continue(initial())
C8_Witness ==
    /\ CurSeq = <<>> /\ ret = "Ok" /\ kind = "try_fold"
    /\ Nexts = <<Close>> /\ Result = Continue(user_init(combine))

\* C9: a decode error aborts the reduction. When the first element that does
\* not decode comes before any Stop, the operation never returns a value,
\* finalize is never called, step is called on the elements before the bad
\* one only, and the operation ends with the decode error (all four kinds).
C9_DecodeErrorAborts ==
    LET b == FirstBad(CurSeq)
    IN  (Active /\ b > 0 /\ StopsAt(CurSeq) = 0) =>
            /\ ret # "Ok" /\ ~Finalized /\ Len(results) = cur - 1
            /\ IsPrefix(Steps, SubSeq(CurSeq, 1, b - 1))
            /\ Terminal => /\ pc = "err" /\ ret = "Err"
                           /\ Steps = SubSeq(CurSeq, 1, b - 1)
                           /\ trace[Len(trace)] = Ev("next", Bad)

\* C9 witness: the error at index 2 of 3 was returned, a decodable element behind it
C9_Witness ==
    /\ pc = "err" /\ ret = "Err" /\ Len(CurSeq) = 3
    /\ FirstBad(CurSeq) = 2 /\ CurSeq[3] \in Items
    /\ StopsAt(CurSeq) = 0 /\ Len(Steps) = 1

\* C10: a decode error during the drain is fatal. When step returned Stop at
\* element k and a later element does not decode, the operation never returns
\* a value, the Stop payload is never made the result, finalize is not called
\* and the operation ends with the decode error.
C10_DecodeErrorInDrain ==
    LET k == StopsAt(CurSeq)
        b == FirstBad(CurSeq)
    IN  (Active /\ k > 0 /\ b > k) =>
            /\ ret # "Ok" /\ ~Finalized /\ fin = Unset
            /\ Len(results) = cur - 1
            /\ Terminal => /\ pc = "err" /\ ret = "Err"
                           /\ clot_break = Some(CurSeq[k])
                           /\ trace[Len(trace)] = Ev("next", Bad)

\* C10 witness: Find matched at index 1, drained index 2, failed at index 3
C10_Witness ==
    /\ pc = "err" /\ ret = "Err" /\ kind = "find"
    /\ StopsAt(CurSeq) = 1 /\ FirstBad(CurSeq) = 3
    /\ clot_break = Some(CurSeq[1])

\* elements the cursor decoded so far in the running reduction
Decoded == SelectSeq(Nexts, LAMBDA x : x \in Items)

\* step has returned Stop in the running reduction
Stopped == clot_break # <<>> \/ fin.tag = "Break"

\* C11 (as claimed): the elements handed to step are the elements the cursor
\* decoded during the reduction (read whenever no element is in hand).
C11_StepsAreDecoded ==
    (Active /\ pc # "step") => Steps = Decoded

\* C11 (amended): step is called exactly once, in the parser's order, on each
\* element decoded up to and including the first one on which step returns
\* Stop; the elements decoded by the drain after it are not handed to step.
C11_StepsAreDecodedUntilStop ==
    Active =>
        /\ ~Stopped => Steps \o value = Decoded
        /\ Stopped => /\ Steps = SubSeq(Decoded, 1, StopsAt(CurSeq))
                      /\ value = <<>>
        /\ calls = Steps

\* C11 witness: three elements decoded and stepped in order, no Stop
C11_Witness ==
    /\ ret = "Ok" /\ ~Stopped /\ Len(CurSeq) = MaxLen
    /\ Steps = CurSeq /\ Decoded = CurSeq /\ CurSeq[1] # CurSeq[2]

\* C11, the refuting case reached: an element decoded by the drain, not stepped
C11_DrainedNotStepped ==
    /\ ret = "Ok" /\ Stopped /\ Len(Decoded) > Len(Steps)

\* C12: Fallible Fold exposes the raw signal. On a sequence without decode
\* error it returns Continue(a), a the left-to-right fold of all elements,
\* when no step stopped, and otherwise Stop(x), x the payload of the first
\* step that returned Stop (deep and top_level).
C12_TryFoldRawSignal ==
    (Active /\ kind = "try_fold" /\ FirstBad(CurSeq) = 0) =>
        /\ Terminal => ret = "Ok"
        /\ ret = "Ok" =>
               IF StopsAt(CurSeq) = 0
               THEN /\ Result.tag = "Continue"
                    /\ Result.val = FoldL(combine, user_init(combine), CurSeq)
               ELSE /\ Result.tag = "Break"
                    /\ Result.val = user_try_f(combine, stopSet, <<>>,
                                               CurSeq[StopsAt(CurSeq)]).val

\* C12 witness: a Stop at index 2 returned as Break although index 3 stops too
C12_Witness ==
    /\ kind = "try_fold" /\ ret = "Ok" /\ Len(CurSeq) = 3
    /\ StopsAt(CurSeq) = 2 /\ CurSeq[3] \in stopSet
    /\ Result = Break(CurSeq[2])

\* C12 second case, reached too: no step stopped, Continue of the whole fold
C12_ContinueReached ==
    /\ kind = "try_fold" /\ ret = "Ok" /\ Len(CurSeq) = MaxLen
    /\ combine = "push" /\ stopSet # {} /\ Result = Continue(CurSeq)

\* ------------------------------------------- both entry points, one input
\* The same sequence, reducer and user functions are run first through the
\* embedded-value entry (StreamSeqDeser over I), then through the top-level
\* entry (DeserializerExt), and what the first run did is kept in snap.
InitBoth ==
    /\ mode = "deep"
    /\ kind \in Kinds
    /\ combine \in (IF kind \in {"fold", "try_fold"} THEN Combines ELSE {"push"})
    /\ stopSet \in (IF kind \in {"try_fold", "find"} THEN SUBSET Items ELSE {{}})
    /\ doc \in {<<s>> : s \in SeqsUpTo(MaxLen)}
    /\ cursor = 1 /\ cur = 1 /\ pc = "idle"
    /\ acc = <<>> /\ value = <<>> /\ clot_break = <<>> /\ fin = Unset
    /\ ret = "none" /\ results = <<>> /\ trace = <<>> /\ calls = <<>>
    /\ snap = <<>>

\* the deep run is over: record it and hand the same input to the top-level entry
Rerun_top_level ==
    /\ mode = "deep" /\ pc \in {"done", "err", "panic"} /\ snap = <<>>
    /\ snap' = <<[ret |-> ret, nexts |-> Nexts, steps |-> Steps, calls |-> calls,
                  results |-> results, cursor |-> cursor]>>
    /\ mode' = "top"
    /\ cursor' = 1 /\ cur' = 1 /\ pc' = "idle"
    /\ acc' = <<>> /\ value' = <<>> /\ clot_break' = <<>> /\ fin' = Unset
    /\ ret' = "none" /\ results' = <<>> /\ trace' = <<>> /\ calls' = <<>>
    /\ UNCHANGED <<kind, combine, stopSet, doc>>

NextBoth ==
    \/ StreamSeqDeser_deserialize
    \/ Vis_init
    \/ Vis_next
    \/ Vis_step
    \/ Vis_drain
    \/ Vis_finalize
    \/ Deep_next_field
    \/ Rerun_top_level
    \/ Ext_try_fold
    \/ Wrapper_init
    \/ Wrapper_next
    \/ Wrapper_step
    \/ Wrapper_drain
    \/ Ext_match

SpecBoth == InitBoth /\ [][NextBoth]_vars

\* C13: one engine, two entry points. On the same element sequence (decode
\* errors at any position included) and the same step function, the top-level
\* entry makes the next_element and step calls the embedded-value entry made,
\* in the same order, and ends with the same outcome: the same value or the
\* same decode error, the same user calls, the cursor at the same place.
C13_SameBehaviour ==
    (mode = "top" /\ snap # <<>> /\ Active) =>
        LET d == snap[1]
        IN  /\ IsPrefix(Nexts, d.nexts)
            /\ IsPrefix(Steps, d.steps)
            /\ IsPrefix(calls, d.calls)
            /\ pc \in {"done", "err", "panic"} =>
                   /\ ret = d.ret
                   /\ Nexts = d.nexts /\ Steps = d.steps /\ calls = d.calls
                   /\ cursor = d.cursor
                   /\ ret = "Ok" => results = d.results

\* C13 witness: both entries returned the same match after draining
C13_Witness ==
    /\ mode = "top" /\ snap # <<>> /\ pc = "done" /\ kind = "find"
    /\ StopsAt(CurSeq) = 1 /\ Len(CurSeq) = MaxLen
    /\ results = snap[1].results /\ Nexts = snap[1].nexts

\* C13, the error case reached too: both entries failed in the drain
C13_ErrReached ==
    /\ mode = "top" /\ snap # <<>> /\ pc = "err" /\ snap[1].ret = "Err"
    /\ StopsAt(CurSeq) = 1 /\ FirstBad(CurSeq) = 3 /\ Nexts = snap[1].nexts

\* C14: no buffering, one element at a time. The engine holds at most one
\* decoded element, and only between its pull and its step; before any Stop
\* every decoded element is handed to step before the next pull, so the
\* calls alternate next, step, next, step; one accumulator is threaded.
C14_OneElementAtATime ==
    Active =>
        /\ Len(value) <= 1
        /\ value # <<>> <=> pc = "step"
        /\ Len(Decoded) - Len(Steps) - Len(value) =
               (IF Stopped THEN Len(Decoded) - StopsAt(CurSeq) ELSE 0)
        /\ \A i \in 1..Len(trace) :
               (trace[i].op = "next" /\ trace[i].arg \in Items
                    /\ Len(SelectSeq(SubSeq(trace, 1, i), LAMBDA e : e.op = "next"))
                           <= (IF StopsAt(CurSeq) = 0 THEN Len(CurSeq)
                               ELSE StopsAt(CurSeq)))
               => IF i = Len(trace) THEN pc = "step" /\ value = Some(trace[i].arg)
                  ELSE trace[i + 1] = Ev("step", trace[i].arg)

\* C14 witness: the third element is in hand, the first two already stepped
C14_Witness ==
    /\ pc = "step" /\ Len(value) = 1 /\ Len(Steps) = 2 /\ Len(Decoded) = 3
    /\ ~Stopped

\* C15: the Stop branch is unreachable for Fold and For-Each. Their step only
\* ever returns Continue: the drain is never entered, no Break is ever held,
\* and unreachable!() is never executed, so on a sequence without decode
\* error they always return a value (deep and top_level).
C15_StopUnreachable ==
    kind \in {"fold", "for_each"} =>
        /\ pc \notin {"drain", "panic"} /\ ret # "panic"
        /\ ~Stopped
        /\ pc = "step" => I_try_fold(kind, combine, stopSet, acc, value[1]).flow.tag
                              = "Continue"
                          /\ top_f(kind, combine, stopSet, acc, value[1]).flow.tag
                              = "Continue"
        /\ (Active /\ Terminal /\ FirstBad(CurSeq) = 0) => ret = "Ok"

\* C15 witness: a For-Each over a full-length sequence went through finalize
C15_Witness ==
    /\ kind = "for_each" /\ ret = "Ok" /\ Finalized
    /\ Len(CurSeq) = MaxLen /\ Len(Steps) = MaxLen

\* number of calls of `op` made by the running reduction
Count(op) == Len(SelectSeq(trace, LAMBDA e : e.op = op))

\* C16: lifecycle of one reduction. initial() is the first call of a
\* reduction and is never called again; finalize is called only right after
\* the pull that reported exhaustion and nothing is called after it; a
\* reduction that returned a Terminal Result made exactly one initial() call
\* and exactly one finalize call, its last.
C16_Lifecycle ==
    Active =>
        /\ trace # <<>> => trace[1] = Ev("init", 0)
        /\ \A i \in 2..Len(trace) : trace[i].op # "init"
        /\ \A i \in 1..Len(trace) :
               trace[i].op = "finalize" =>
                   /\ i = Len(trace) /\ i > 2
                   /\ trace[i - 1] = Ev("next", Close)
        /\ ret = "Ok" => /\ Count("init") = 1 /\ Count("finalize") = 1
                         /\ trace[Len(trace)].op = "finalize"
        /\ pc \in {"loop", "step", "drain", "finalize"} => Count("init") = 1

\* C16 witness: a reduction that stopped early returned; init first, finalize last
C16_Witness ==
    /\ ret = "Ok" /\ Stopped /\ Len(CurSeq) = MaxLen /\ StopsAt(CurSeq) = 2
    /\ trace[1].op = "init" /\ trace[Len(trace)].op = "finalize"
    /\ Len(trace) = 2 * StopsAt(CurSeq) + (MaxLen - StopsAt(CurSeq)) + 3

\* C17: no retry and no skip after a decode error. A next_element call that
\* returned a decode error, in the main loop or in the drain, is the last
\* call the engine makes: the operation has returned the error and takes no
\* further step.
C17_NoRetryAfterError ==
    Active =>
        /\ \A i \in 1..Len(trace) :
               trace[i] = Ev("next", Bad) =>
                   i = Len(trace) /\ pc = "err" /\ ret = "Err"
        /\ pc = "err" => ~ENABLED Next
        /\ (Terminal /\ FirstBad(CurSeq) > 0) =>
               /\ pc = "err"
               /\ Len(Nexts) = FirstBad(CurSeq)

\* C17 witness: the error hit by the drain ended the operation, elements behind it unread
C17_Witness ==
    /\ pc = "err" /\ Stopped /\ FirstBad(CurSeq) = 2 /\ Len(CurSeq) = MaxLen
    /\ Len(Nexts) = 2 /\ Nexts[2] = Bad

\* C17, the main-loop case reached too
C17_MainLoopReached ==
    /\ pc = "err" /\ ~Stopped /\ FirstBad(CurSeq) = 2 /\ Len(CurSeq) = MaxLen
    /\ Len(Nexts) = 2

\* C18 (as claimed): after a decode error before any Stop nothing of the
\* elements already reduced is observable: the calls the user's function
\* received (what a for_each closure did to its captured state) are gone.
C18_NoEffectsOnFailure ==
    (Active /\ ret = "Err" /\ ~Stopped) => calls = <<>>

\* C18 (amended): after a decode error at index i before any Stop the
\* operation returns the error and no value, no accumulator and no partial
\* result; the calls already made on e0..e(i-1) were made, once each and in
\* order, and what they did stays done.
C18_NoResultOnFailure ==
    LET b == FirstBad(CurSeq)
    IN  (Active /\ b > 0 /\ StopsAt(CurSeq) = 0) =>
            /\ ret # "Ok" /\ Len(results) = cur - 1 /\ fin = Unset
            /\ IsPrefix(calls, SubSeq(CurSeq, 1, b - 1))
            /\ Terminal => /\ ret = "Err"
                           /\ calls = SubSeq(CurSeq, 1, b - 1)

\* C18 witness: a top-level for_each failed at index 3, its closure was run twice
C18_Witness ==
    /\ mode = "top" /\ kind = "for_each" /\ pc = "err" /\ ret = "Err"
    /\ FirstBad(CurSeq) = 3 /\ Len(calls) = 2 /\ results = <<>>

\* C19: never pull past exhaustion. The pull that reports "no more elements",
\* in the main loop or in the drain, is the last next_element call of the
\* reduction; on a sequence of n elements that decodes without error the
\* engine makes exactly n + 1 next_element calls, stopped early or not.
C19_NoPullPastExhaustion ==
    Active =>
        /\ \A i \in 1..Len(Nexts) : Nexts[i] = Close => i = Len(Nexts)
        /\ Len(Nexts) <= Len(CurSeq) + 1
        /\ (Nexts # <<>> /\ Nexts[Len(Nexts)] = Close) =>
               /\ pc \in {"finalize", "returned", "done"}
               /\ cursor = SeqEnd(cur) + 1
        /\ (Terminal /\ FirstBad(CurSeq) = 0) =>
               /\ ret = "Ok"
               /\ Len(Nexts) = Len(CurSeq) + 1

\* C19 witness: n + 1 pulls on a sequence that stopped at its first element
C19_Witness ==
    /\ ret = "Ok" /\ Stopped /\ StopsAt(CurSeq) = 1 /\ Len(CurSeq) = MaxLen
    /\ Len(Nexts) = MaxLen + 1 /\ Nexts[MaxLen + 1] = Close

\* C19, the case without early stop reached too
C19_NoStopReached ==
    /\ ret = "Ok" /\ ~Stopped /\ Len(CurSeq) = MaxLen /\ Len(Nexts) = MaxLen + 1

\* ------------------------------------------------------------- liveness
\* The code is one synchronous thread: a call that can proceed does proceed.
\* Control flow reads the user's function only through Continue / Break, which
\* stopSet decides, so the runs are taken with one combine function.
InitLive == Init /\ combine = "push"

LiveSpec == InitLive /\ [][Next]_vars /\ WF_vars(Next)

\* the whole operation is over
Over == pc \in {"done", "err", "panic"}

\* a pull moves the cursor on by one, or ends the operation where it stands
PullAdvancesOrFails ==
    pc \in {"loop", "drain"} =>
        \/ cursor' = cursor + 1
        \/ pc' = "err" /\ cursor' = cursor

\* C20: termination. Every pull of the main loop and of the drain either
\* advances the cursor by one or ends the operation with the decode error,
\* every reduction that entered visit_seq returns (a value or a decode
\* error), and the whole operation ends.
C20_Terminates ==
    /\ [][PullAdvancesOrFails]_vars
    /\ (pc = "init") ~> Terminal
    /\ <>Over

\* C20 witness: both reductions of a document returned, the first after a drain
C20_Witness ==
    /\ mode = "deep" /\ cur = 2 /\ pc = "done"
    /\ StopsAt(doc[1]) = 1 /\ Len(doc[1]) = MaxLen /\ Len(doc[2]) = MaxLen2

\* ------------------------------------------------- Find's predicate calls
\* number of elements of s the predicate of Find gets to see: up to and
\* including the first match, all of them when nothing matches, and in either
\* case none from the first element that does not decode
PredSeen(s) ==
    IF StopsAt(s) > 0 THEN StopsAt(s)
    ELSE IF FirstBad(s) > 0 THEN FirstBad(s) - 1
    ELSE Len(s)

\* C21: Find's predicate is evaluated only up to the first match. In both
\* engines the predicate is called once per step, on the elements of the
\* sequence in order; on a sequence whose first match is at index k (e0..ek
\* decode) it has been called exactly once on each of e0..ek and on no element
\* after ek once the Stop is held, whatever the drain then meets; when nothing
\* matches and every element decodes it has been called exactly once on every
\* element when Find returns.
C21_PredicateUpToFirstMatch ==
    (Active /\ kind = "find") =>
        /\ calls = Steps
        /\ IsPrefix(calls, CurSeq)
        /\ Len(calls) <= PredSeen(CurSeq)
        /\ (StopsAt(CurSeq) > 0 /\ (Stopped \/ Terminal)) =>
               calls = SubSeq(CurSeq, 1, StopsAt(CurSeq))
        /\ (FirstStop(CurSeq) = 0 /\ FirstBad(CurSeq) = 0 /\ Terminal) =>
               /\ ret = "Ok"
               /\ calls = CurSeq

\* C21 witness: Find returned the match at index 2 of a full-length sequence
\* whose last element matches too, the predicate having seen the first two only
C21_Witness ==
    /\ kind = "find" /\ ret = "Ok" /\ Len(CurSeq) = MaxLen
    /\ StopsAt(CurSeq) = 2 /\ CurSeq[MaxLen] \in stopSet
    /\ calls = SubSeq(CurSeq, 1, 2) /\ Result = Some(CurSeq[2])

\* C21 second case, reached too: nothing matches a non-trivial predicate and
\* it was called on every element of a full-length sequence
C21_NoMatchReached ==
    /\ kind = "find" /\ ret = "Ok" /\ Len(CurSeq) = MaxLen
    /\ stopSet # {} /\ FirstStop(CurSeq) = 0 /\ calls = CurSeq /\ Result = None

====
